---------------------------- MODULE Spec2Model ----------------------------
(***************************************************************************)
(* Model of the delta-neutral hedger (src/hedger.py, src/utils.py,         *)
(* src/exchanges/paradex/api.py, src/exchanges/bitget/api.py).             *)
(*                                                                         *)
(* One hedge attempt = one call of HedgeManager.execute_hedge_strategy.    *)
(* Every awaited venue call is one action; the venue's answer (success,    *)
(* failure, payload) is chosen nondeterministically.  Python exceptions    *)
(* are modelled by their class name; the try/except clauses of the source  *)
(* are operators mapping the raised class to the class that leaves the     *)
(* clause.                                                                 *)
(*                                                                         *)
(* Units.  Sizes are integers counted in the smallest size unit of the     *)
(* model.  Money is an integer number of ticks, MoneyScale ticks to the    *)
(* dollar; every amount a venue reports is a whole number of dollars.      *)
(* Prices are ticks per size unit.  Decimal arithmetic of the source is    *)
(* exact on these values except where the source builds a Decimal from a   *)
(* binary float:                                                           *)
(*   Decimal(0.95) = 0.95 - 4.4e-17  (hedger.py:115-116), and              *)
(*   Decimal(1.05) = 1.05 + 4.4e-17  (hedger.py:248).                      *)
(* The deficit of the first is modelled as one tick (Scale95), the excess  *)
(* of the second by rounding an exact quotient up to the next integer      *)
(* (_calculate_min_paradex_size).                                          *)
(***************************************************************************)
EXTENDS Integers, Sequences, FiniteSets, TLC

(***************************************************************************)
(* Bounds of the model.                                                    *)
(***************************************************************************)
\* increments (paradex order_size_increment, bitget sizeMultiplier) range over 1..MaxIncrement
MaxIncrement == 3
\* sizes drawn directly for _find_common_size under FindSpec range over 0..MaxUnits
MaxUnits == 7
\* ticks per dollar
MoneyScale == 2

(***************************************************************************)
(* Program constants.                                                      *)
(***************************************************************************)
\* config.py:15  POSITION_USD_LIMITS = [50, 1000]
POSITION_USD_MIN == 50
POSITION_USD_MAX == 1000
POSITION_USD_LIMITS == <<POSITION_USD_MIN * MoneyScale, POSITION_USD_MAX * MoneyScale>>

\* the value of a Python None (sizes are never negative)
None == -1

Min2(a, b) == IF a <= b THEN a ELSE b
Max2(a, b) == IF a >= b THEN a ELSE b
Min3(a, b, c) == Min2(a, Min2(b, c))

\* paradex OrderSide / bitget side strings
OppositeSide(side) == IF side = "Buy" THEN "Sell" ELSE "Buy"

(***************************************************************************)
(* Pure functions of the sizing engine.                                    *)
(***************************************************************************)

\* fault variant of Scale95: the balance is used as the venue reports it
Scale95Unscaled(available) == available

\* hedger.py:115-116  `await self.prepare_x() * Decimal(0.95)`
\* available is a whole number of dollars, a multiple of 20 dollars in the
\* model, so available * 0.95 is a whole number of ticks; the product with
\* the float-built Decimal lies just below it.
Scale95(available) ==
    IF available = 0 THEN 0 ELSE (available * 95) \div 100 - 1

\* hedger.py:245-251  _calculate_min_paradex_size
\* ROUND_UP of (min_notional / price) * Decimal(1.05) / increment: the factor
\* exceeds 1.05, so a positive quotient is always rounded to floor + 1.
_calculate_min_paradex_size(min_notional, price, increment) ==
    IF min_notional = 0 THEN 0
    ELSE ((min_notional * 105) \div (100 * price * increment) + 1) * increment

\* fault variant of _calculate_max_bitget_size: the 0.95 factor is left out
_calculate_max_bitget_size_uncapped(position_limit_pct, open_interest, multiplier) ==
    ((position_limit_pct * open_interest) \div (100 * multiplier)) * multiplier

\* hedger.py:253-258  _calculate_max_bitget_size
\* position_limit is given in percent (posLimit = percent / 100).
_calculate_max_bitget_size(position_limit_pct, open_interest, multiplier) ==
    ((position_limit_pct * open_interest * 95) \div (100 * 100 * multiplier)) * multiplier

\* fault variant of PositionBounds: the configured minimum is left out
PositionBoundsWithoutConfiguredMinimum(min_trade_amount, position_usd_limits, available_balance) ==
    LET min_position == min_trade_amount
        max_position == Min2(position_usd_limits[2], available_balance)
    IN  IF min_position > max_position THEN <<>> ELSE <<min_position, max_position>>

\* utils.py:6-18  calculate_position_value: the bounds of the random draw,
\* None when min_position > max_position
PositionBounds(min_trade_amount, position_usd_limits, available_balance) ==
    LET min_position == Max2(min_trade_amount, position_usd_limits[1])
        max_position == Min2(position_usd_limits[2], available_balance)
    IN  IF min_position > max_position THEN <<>> ELSE <<min_position, max_position>>

\* utils.py:20-22  float(max_position).  A max_position below the configured
\* limit is a scaled balance: it lies less than half an ulp under
\* 0.95 * available, a whole number of dollars, which is the float returned.
FloatOfMaxPosition(max_position, position_usd_limits) ==
    IF max_position < position_usd_limits[2] THEN max_position + 1 ELSE max_position

\* hedger.py:178-183  raw size: ((position_value / price) // increment) * increment
RawSize(position_value, price, increment) ==
    ((position_value \div price) \div increment) * increment

\* fault variant of MaxAffordable: the balance is not looked at
MaxAffordableIgnoresBalance(balance, price, increment, max_size) == max_size

\* hedger.py:185-196  min((balance / price) // increment * increment, max_size)
MaxAffordable(balance, price, increment, max_size) ==
    Min2(((balance \div price) \div increment) * increment, max_size)

\* fault variant of ScanUp: the first common multiple is returned whatever
\* the target
ScanUpIgnoresTarget(current_size, upper_limit, paradex_increment, bitget_multiplier, increment_step, target_size) ==
    LET passes == IF current_size > upper_limit THEN {}
                  ELSE 0..((upper_limit - current_size) \div increment_step)
        Found(k) == LET size == current_size + k * increment_step
                    IN  size % paradex_increment = 0 /\ size % bitget_multiplier = 0
    IN  IF \E k \in passes : Found(k)
        THEN current_size + increment_step * (CHOOSE k \in passes : Found(k) /\ \A j \in 0..(k - 1) : ~Found(j))
        ELSE None

\* hedger.py:293-299  the upward scan of _find_common_size: pass k of the
\* loop looks at current_size + k * increment_step, the passes run while that
\* is at most upper_limit, and the first pass whose size is a multiple of
\* both increments and at least the target returns it
ScanUp(current_size, upper_limit, paradex_increment, bitget_multiplier, increment_step, target_size) ==
    LET passes == IF current_size > upper_limit THEN {}
                  ELSE 0..((upper_limit - current_size) \div increment_step)
        Found(k) == LET size == current_size + k * increment_step
                    IN  /\ size % paradex_increment = 0
                        /\ size % bitget_multiplier = 0
                        /\ size >= target_size
    IN  IF \E k \in passes : Found(k)
        THEN current_size + increment_step * (CHOOSE k \in passes : Found(k) /\ \A j \in 0..(k - 1) : ~Found(j))
        ELSE None

\* hedger.py:301-307  the downward scan of _find_common_size: pass k looks
\* at current_size - k * increment_step, the passes run while that is at
\* least min_size, and the first pass whose size is a multiple of both
\* increments returns it
ScanDown(current_size, min_size, paradex_increment, bitget_multiplier, increment_step) ==
    LET passes == IF current_size < min_size THEN {}
                  ELSE 0..((current_size - min_size) \div increment_step)
        Found(k) == LET size == current_size - k * increment_step
                    IN  /\ size % paradex_increment = 0
                        /\ size % bitget_multiplier = 0
    IN  IF \E k \in passes : Found(k)
        THEN current_size - increment_step * (CHOOSE k \in passes : Found(k) /\ \A j \in 0..(k - 1) : ~Found(j))
        ELSE None

\* hedger.py:276-309  _find_common_size
_find_common_size(p_size, b_size, p_increment, b_multiplier, min_p_size, min_b_size, max_aff_p_size, max_aff_b_size) ==
    LET upper_limit == Min2(max_aff_p_size, max_aff_b_size)
        min_size == Max2(min_p_size, min_b_size)
        increment_step == Min2(p_increment, b_multiplier)
        target_size == Max2(p_size, b_size)
        up == ScanUp(min_size, upper_limit, p_increment, b_multiplier, increment_step, target_size)
    IN  IF up # None THEN up
        ELSE ScanDown(upper_limit, min_size, p_increment, b_multiplier, increment_step)


\* fault variant of ChosenSizes: the common size is computed and not used
ChosenSizesIgnoresCommon(common, p_size, b_size, max_p_size, max_b_size, max_aff_p_size, max_aff_b_size) ==
    <<Min3(p_size, max_p_size, max_aff_p_size), Min3(b_size, max_b_size, max_aff_b_size)>>

\* hedger.py:209-217  both legs take the common size when it is truthy (a
\* Decimal zero and None are both falsy), else each leg its own capped size
ChosenSizes(common, p_size, b_size, max_p_size, max_b_size, max_aff_p_size, max_aff_b_size) ==
    IF common # None /\ common # 0
    THEN <<common, common>>
    ELSE <<Min3(p_size, max_p_size, max_aff_p_size), Min3(b_size, max_b_size, max_aff_b_size)>>

\* hedger.py:260-274  _validate_size_constraints: the class raised, or "ok"
_validate_size_constraints(min_p_size, max_p_size, min_b_size, max_b_size) ==
    IF max_p_size < min_p_size THEN "ValueError"
    ELSE IF max_b_size < min_b_size THEN "ValueError"
    ELSE "ok"

\* hedger.py:311-339  _validate_final_sizes: the class raised, or "ok"
_validate_final_sizes(p_size, b_size, min_p_size, min_b_size, p_price, b_price, p_balance, b_balance) ==
    IF p_size < min_p_size THEN "ValueError"
    ELSE IF b_size < min_b_size THEN "ValueError"
    ELSE IF p_size * p_price > p_balance \/ b_size * b_price > b_balance
         THEN "InsufficientFundsError"
         ELSE "ok"

(***************************************************************************)
(* Exception routing of place_orders.                                      *)
(***************************************************************************)

\* fault variant of InnerReraise: the OrderCancelledError handler wraps like
\* the generic handler instead of re-raising
InnerReraiseAlwaysWraps(caught) == "BitgetError"

\* hedger.py:376-414  what the inner handlers raise once compensation of
\* leg A has completed: `raise` (394) for OrderCancelledError, BitgetError
\* (414) for every other class caught from place_bitget_order
InnerReraise(caught) ==
    IF caught = "OrderCancelledError" THEN "OrderCancelledError" ELSE "BitgetError"

\* fault variant of OuterHandler: the `except OrderCancelledError: raise`
\* clause (416-417) is missing
OuterHandlerWithoutCancelledClause(raised) == "ParadexError"

\* hedger.py:416-420  the outer handlers of place_orders: every exception
\* leaving the outer try body, the inner handlers' own raises included
OuterHandler(raised) ==
    IF raised = "OrderCancelledError" THEN "OrderCancelledError" ELSE "ParadexError"

\* fault variant of ExecuteHandler: whatever is caught leaves as a HedgeError
ExecuteHandlerWrapsInHedgeError(raised) == "HedgeError"

\* hedger.py:241-243  execute_hedge_strategy logs and re-raises
ExecuteHandler(raised) == raised

(***************************************************************************)
(* Venue payloads the model draws from.                                    *)
(***************************************************************************)
Dollars(d) == d * MoneyScale

Increments == 1..MaxIncrement

\* paradex get_account_info()["free_collateral"]
FreeCollateral == {Dollars(40), Dollars(100), Dollars(1200)}
\* bitget get_account_details()["data"]["isolatedMaxAvailable"]
IsolatedMaxAvailable == {Dollars(100), Dollars(1200)}
\* paradex get_margin_configuration()["configs"][0]
MarginConfigurations ==
    { [leverage |-> 1, margin_type |-> "ISOLATED"],
      [leverage |-> 5, margin_type |-> "ISOLATED"],
      [leverage |-> 1, margin_type |-> "CROSS"] }
\* bitget get_account_details()["data"] mode fields
AccountModes ==
    { [marginMode |-> "isolated", posMode |-> "one_way_mode", isolatedLongLever |-> 1, isolatedShortLever |-> 1],
      [marginMode |-> "crossed", posMode |-> "hedge_mode", isolatedLongLever |-> 1, isolatedShortLever |-> 3],
      [marginMode |-> "isolated", posMode |-> "hedge_mode", isolatedLongLever |-> 1, isolatedShortLever |-> 1] }
\* paradex get_bbo(): price per size unit
Bbos ==
    { [bid |-> Dollars(20), ask |-> Dollars(25)],
      [bid |-> Dollars(21), ask |-> Dollars(25)],
      [bid |-> Dollars(180), ask |-> Dollars(200)] }
\* bitget get_future_price()["data"][0]["markPrice"]
MarkPrices == { Dollars(20), Dollars(25), Dollars(180) }
\* paradex get_market_data()["min_notional"]
MinNotionals == { Dollars(20), Dollars(50), Dollars(100) }
\* paradex get_market_data()["max_order_size"], in increments
MaxOrderSizeSteps == { 3, 6 }
\* bitget get_contract_details()["data"][0]["minTradeUSDT"]
MinTradeUSDTs == { Dollars(5) }
\* bitget get_contract_details()["data"][0]["minTradeNum"], in multipliers
MinTradeNumSteps == { 1, 2 }
\* bitget posLimit, percent
PosLimits == { 5 }
\* bitget get_open_interest() size
OpenInterests == { 20, 400 }
\* values random.uniform may return inside [lo, hi], either end included
\* (utils.py:20-22)
PositionDraws(lo, hi) == {lo, hi} \cup {v \in {Dollars(75), Dollars(200)} : lo <= v /\ v <= hi}

(***************************************************************************)
(* State.                                                                  *)
(***************************************************************************)
VARIABLES
    \* the two gateways and what the venues hold
    config,                 \* ParadexAPI.config is loaded (api.py:32, 79)
    margin_configuration,   \* paradex margin configuration of ETH-USD-PERP
    account_details,        \* bitget posMode / marginMode / leverage
    paradex_orders,         \* orders paradex accepted, in order of acceptance
    bitget_orders,          \* orders bitget accepted
    calls,                  \* number of order calls issued, per venue call
    \* control
    pc,                     \* the statement the attempt is at
    error,                  \* class of the exception that left the attempt
    result,                 \* the pair execute_hedge_strategy returned
    \* locals of execute_hedge_strategy
    paradex_available, bitget_available,
    paradex_balance, bitget_balance,
    bitget_side, paradex_side,
    paradex_price, bitget_price,
    paradex_increment, min_notional_paradex, min_paradex_size, max_paradex_size,
    bitget_multiplier, min_notional_bitget, min_bitget_size, position_limit,
    bitget_open_interest, max_bitget_size,
    position_value, raw_paradex_size, raw_bitget_size,
    paradex_size, bitget_size,
    max_affordable_paradex_size, max_affordable_bitget_size, common_size,
    \* locals of place_orders / place_paradex_order
    order, call_site, paradex_order_id, bitget_order_id, bitget_error,
    \* across attempts
    applied_before,         \* an earlier attempt completed its preparation
    \* the paradex gateway (api.py)
    credentials,            \* account_address and private_key are set (api.py:29-31, 91-92)
    jwt_token,              \* generation of the bearer token held (api.py:28, 121)
    response,               \* the venue's answer to the request
    auth_response,          \* the venue's answer to POST /auth
    config_response,        \* the venue's answer to GET /system/config
    sent                    \* the requests sent, in order

venueVars == <<config, margin_configuration, account_details>>
orderBook == <<paradex_orders, bitget_orders, calls>>
prepVars == <<paradex_available, bitget_available, paradex_balance, bitget_balance>>
sideVars == <<bitget_side, paradex_side>>
priceVars == <<paradex_price, bitget_price>>
marketVars == <<paradex_increment, min_notional_paradex, min_paradex_size, max_paradex_size>>
contractVars == <<bitget_multiplier, min_notional_bitget, min_bitget_size, position_limit>>
openInterestVars == <<bitget_open_interest, max_bitget_size>>
sizeVars == <<raw_paradex_size, raw_bitget_size, paradex_size, bitget_size, max_affordable_paradex_size, max_affordable_bitget_size, common_size>>
placeVars == <<order, call_site, paradex_order_id, bitget_order_id, bitget_error>>
gatewayVars == <<credentials, jwt_token, response, auth_response, config_response, sent>>

vars == <<venueVars, orderBook, pc, error, result, prepVars, sideVars, priceVars, marketVars, contractVars, openInterestVars, position_value, sizeVars, placeVars, applied_before, gatewayVars>>

NoOrder == [order_side |-> "", size |-> None, reduce_only |-> FALSE]
NoCalls == [paradex_place_order |-> 0, paradex_get_order |-> 0, paradex_cancel_order |-> 0, bitget_place_order |-> 0]

\* there is no answer: no request has been made, or the request made fails
\* before the venue answers
NoResponse == [status |-> 0, json |-> FALSE, error |-> "", has_message |-> FALSE, expired |-> FALSE, effect |-> "none"]

\* main.py:30-33  get_jwt_token has stored the credentials and a first token
GatewayAtRest ==
    /\ credentials = TRUE /\ jwt_token = 1
    /\ response = NoResponse /\ auth_response = NoResponse
    /\ config_response = NoResponse /\ sent = <<>>

\* every local unassigned, nothing placed
FreshAttempt ==
    /\ paradex_orders = <<>> /\ bitget_orders = <<>> /\ calls = NoCalls
    /\ error = "" /\ result = <<>>
    /\ paradex_available = None /\ bitget_available = None
    /\ paradex_balance = None /\ bitget_balance = None
    /\ bitget_side = "" /\ paradex_side = ""
    /\ paradex_price = None /\ bitget_price = None
    /\ paradex_increment = None /\ min_notional_paradex = None
    /\ min_paradex_size = None /\ max_paradex_size = None
    /\ bitget_multiplier = None /\ min_notional_bitget = None
    /\ min_bitget_size = None /\ position_limit = None
    /\ bitget_open_interest = None /\ max_bitget_size = None
    /\ position_value = None
    /\ raw_paradex_size = None /\ raw_bitget_size = None
    /\ paradex_size = None /\ bitget_size = None
    /\ max_affordable_paradex_size = None /\ max_affordable_bitget_size = None
    /\ common_size = None
    /\ order = NoOrder /\ call_site = "" /\ paradex_order_id = None
    /\ bitget_order_id = None /\ bitget_error = ""

\* hedger.py:20-23, main.py:16-36  the manager is constructed over two
\* gateways; the venues hold whatever configuration the account was left in
Init ==
    /\ config \in BOOLEAN
    /\ margin_configuration \in MarginConfigurations
    /\ account_details \in AccountModes
    /\ pc = "get_account_info"
    /\ FreshAttempt
    /\ applied_before = FALSE
    /\ GatewayAtRest

\* an exception of class cls leaves execute_hedge_strategy (hedger.py:241-243)
Raise(cls) ==
    /\ pc' = "raised"
    /\ error' = ExecuteHandler(cls)
    /\ result' = result

Terminal == pc \in {"returned", "raised"}

(***************************************************************************)
(* prepare_paradex (hedger.py:25-42).                                      *)
(***************************************************************************)
restAfterPrep == <<sideVars, priceVars, marketVars, contractVars, openInterestVars, position_value, sizeVars, placeVars>>

\* hedger.py:26-27, api.py:162-177
GetAccountInfo ==
    /\ pc = "get_account_info"
    /\ \/ /\ \E free_collateral \in FreeCollateral : paradex_available' = free_collateral
          /\ pc' = "get_margin_configuration"
          /\ UNCHANGED <<error, result>>
       \/ /\ Raise("ParadexAPIError")
          /\ UNCHANGED paradex_available
    /\ UNCHANGED <<venueVars, applied_before, gatewayVars, orderBook, bitget_available, paradex_balance, bitget_balance, restAfterPrep>>

\* hedger.py:33-35  the condition under which prepare_paradex mutates
ParadexNeedsMarginUpdate(configuration) ==
    configuration.leverage # 1 \/ configuration.margin_type # "ISOLATED"

\* hedger.py:29-35, 42, 115, api.py:179-194
GetMarginConfiguration ==
    /\ pc = "get_margin_configuration"
    /\ \/ /\ IF ParadexNeedsMarginUpdate(margin_configuration)
             THEN /\ pc' = "set_margin_configuration"
                  /\ UNCHANGED paradex_balance
             ELSE /\ pc' = "get_account_details"
                  /\ paradex_balance' = Scale95(paradex_available)
          /\ UNCHANGED <<error, result>>
       \/ /\ Raise("ParadexAPIError")
          /\ UNCHANGED paradex_balance
    /\ UNCHANGED <<venueVars, applied_before, gatewayVars, orderBook, paradex_available, bitget_available, bitget_balance, restAfterPrep>>

\* hedger.py:36-42, 115, api.py:196-214
SetMarginConfiguration ==
    /\ pc = "set_margin_configuration"
    /\ \/ /\ margin_configuration' = [leverage |-> 1, margin_type |-> "ISOLATED"]
          /\ pc' = "get_account_details"
          /\ paradex_balance' = Scale95(paradex_available)
          /\ UNCHANGED <<error, result>>
       \/ /\ Raise("ParadexAPIError")
          /\ UNCHANGED <<margin_configuration, paradex_balance>>
    /\ UNCHANGED <<config, applied_before, gatewayVars, account_details, orderBook, paradex_available, bitget_available, bitget_balance, restAfterPrep>>

(***************************************************************************)
(* prepare_bitget (hedger.py:44-61).                                       *)
(***************************************************************************)
\* fault variant of BitgetNextStep: leverage is set whatever the venue reports
BitgetNextStepAlwaysSetsLeverage(details, after) ==
    IF after < 1 /\ details.posMode # "one_way_mode" THEN "set_position_mode"
    ELSE IF after < 2 /\ details.marginMode # "isolated" THEN "set_margin_mode"
    ELSE IF after < 3 THEN "set_leverage"
    ELSE "get_random_order_side"

\* hedger.py:52-61  the statement prepare_bitget continues at, given the
\* mode fields it read and the mutating calls already behind it
BitgetNextStep(details, after) ==
    IF after < 1 /\ details.posMode # "one_way_mode" THEN "set_position_mode"
    ELSE IF after < 2 /\ details.marginMode # "isolated" THEN "set_margin_mode"
    ELSE IF after < 3 /\ (details.isolatedLongLever # 1 \/ details.isolatedShortLever # 1) THEN "set_leverage"
    ELSE "get_random_order_side"

\* prepare_bitget returns (hedger.py:61) and line 116 scales the balance
BitgetPrepared(next, available) ==
    IF next = "get_random_order_side"
    THEN bitget_balance' = Scale95(available)
    ELSE UNCHANGED bitget_balance

\* hedger.py:45-50, api.py:87-96
GetAccountDetails ==
    /\ pc = "get_account_details"
    /\ \/ /\ \E available \in IsolatedMaxAvailable : bitget_available' = available
          /\ pc' = BitgetNextStep(account_details, 0)
          /\ BitgetPrepared(pc', bitget_available')
          /\ UNCHANGED <<error, result>>
       \/ /\ Raise("BitgetAPIError")
          /\ UNCHANGED <<bitget_available, bitget_balance>>
    /\ UNCHANGED <<venueVars, applied_before, gatewayVars, orderBook, paradex_available, paradex_balance, restAfterPrep>>

\* hedger.py:52-53, api.py:98-108
SetPositionMode ==
    /\ pc = "set_position_mode"
    /\ \/ /\ account_details' = [account_details EXCEPT !.posMode = "one_way_mode"]
          /\ pc' = BitgetNextStep(account_details, 1)
          /\ BitgetPrepared(pc', bitget_available)
          /\ UNCHANGED <<error, result>>
       \/ /\ Raise("BitgetAPIError")
          /\ UNCHANGED <<account_details, bitget_balance>>
    /\ UNCHANGED <<config, applied_before, gatewayVars, margin_configuration, orderBook, paradex_available, bitget_available, paradex_balance, restAfterPrep>>

\* hedger.py:55-56, api.py:110-126
SetMarginMode ==
    /\ pc = "set_margin_mode"
    /\ \/ /\ account_details' = [account_details EXCEPT !.marginMode = "isolated"]
          /\ pc' = BitgetNextStep(account_details, 2)
          /\ BitgetPrepared(pc', bitget_available)
          /\ UNCHANGED <<error, result>>
       \/ /\ Raise("BitgetAPIError")
          /\ UNCHANGED <<account_details, bitget_balance>>
    /\ UNCHANGED <<config, applied_before, gatewayVars, margin_configuration, orderBook, paradex_available, bitget_available, paradex_balance, restAfterPrep>>

\* hedger.py:58-59, api.py:128-149
SetLeverage ==
    /\ pc = "set_leverage"
    /\ \/ /\ account_details' = [account_details EXCEPT !.isolatedLongLever = 1, !.isolatedShortLever = 1]
          /\ pc' = BitgetNextStep(account_details, 3)
          /\ BitgetPrepared(pc', bitget_available)
          /\ UNCHANGED <<error, result>>
       \/ /\ Raise("BitgetAPIError")
          /\ UNCHANGED <<account_details, bitget_balance>>
    /\ UNCHANGED <<config, applied_before, gatewayVars, margin_configuration, orderBook, paradex_available, bitget_available, paradex_balance, restAfterPrep>>

(***************************************************************************)
(* Side draw and market data (hedger.py:118-162).                          *)
(***************************************************************************)
restAfterSide == <<priceVars, marketVars, contractVars, openInterestVars, position_value, sizeVars, placeVars>>

\* fault variant of GetRandomOrderSide: paradex takes the side bitget drew
GetRandomOrderSideSameDirection ==
    /\ pc = "get_random_order_side"
    /\ \E side \in {"buy", "sell"} :
          /\ bitget_side' = side
          /\ paradex_side' = IF side = "buy" THEN "Buy" ELSE "Sell"
    /\ pc' = "get_bbo"
    /\ UNCHANGED <<venueVars, applied_before, gatewayVars, orderBook, error, result, prepVars, restAfterSide>>

\* utils.py:27-31, hedger.py:118-120
GetRandomOrderSide ==
    /\ pc = "get_random_order_side"
    /\ \E side \in {"buy", "sell"} :
          /\ bitget_side' = side
          /\ paradex_side' = IF side = "buy" THEN "Sell" ELSE "Buy"
    /\ pc' = "get_bbo"
    /\ UNCHANGED <<venueVars, applied_before, gatewayVars, orderBook, error, result, prepVars, restAfterSide>>

\* hedger.py:122-125, api.py:270-285
GetBbo ==
    /\ pc = "get_bbo"
    /\ \/ /\ \E bbo \in Bbos : paradex_price' = IF paradex_side = "Buy" THEN bbo.ask ELSE bbo.bid
          /\ pc' = "get_future_price"
          /\ UNCHANGED <<error, result>>
       \/ /\ Raise("ParadexAPIError")
          /\ UNCHANGED paradex_price
    /\ UNCHANGED <<venueVars, applied_before, gatewayVars, orderBook, prepVars, sideVars, bitget_price, marketVars, contractVars, openInterestVars, position_value, sizeVars, placeVars>>

\* hedger.py:127-130, bitget/api.py:151-161
GetFuturePrice ==
    /\ pc = "get_future_price"
    /\ \/ /\ \E mark \in MarkPrices : bitget_price' = mark
          /\ pc' = "get_market_data"
          /\ UNCHANGED <<error, result>>
       \/ /\ \E cls \in {"BitgetAPIError", "BitgetError"} : Raise(cls)
          /\ UNCHANGED bitget_price
    /\ UNCHANGED <<venueVars, applied_before, gatewayVars, orderBook, prepVars, sideVars, paradex_price, marketVars, contractVars, openInterestVars, position_value, sizeVars, placeVars>>

\* hedger.py:132-138, api.py:287-302
GetMarketData ==
    /\ pc = "get_market_data"
    /\ \/ /\ \E increment \in Increments, min_notional \in MinNotionals, steps \in MaxOrderSizeSteps :
                /\ paradex_increment' = increment
                /\ min_notional_paradex' = min_notional
                /\ min_paradex_size' = _calculate_min_paradex_size(min_notional, paradex_price, increment)
                /\ max_paradex_size' = steps * increment
          /\ pc' = "get_contract_details"
          /\ UNCHANGED <<error, result>>
       \/ /\ Raise("ParadexAPIError")
          /\ UNCHANGED marketVars
    /\ UNCHANGED <<venueVars, applied_before, gatewayVars, orderBook, prepVars, sideVars, priceVars, contractVars, openInterestVars, position_value, sizeVars, placeVars>>

\* hedger.py:140-147, bitget/api.py:163-171
GetContractDetails ==
    /\ pc = "get_contract_details"
    /\ \/ /\ \E multiplier \in Increments, min_usdt \in MinTradeUSDTs, steps \in MinTradeNumSteps, limit \in PosLimits :
                /\ bitget_multiplier' = multiplier
                /\ min_notional_bitget' = min_usdt
                /\ min_bitget_size' = steps * multiplier
                /\ position_limit' = limit
          /\ pc' = "get_open_interest"
          /\ UNCHANGED <<error, result>>
       \/ /\ \E cls \in {"BitgetAPIError", "BitgetError"} : Raise(cls)
          /\ UNCHANGED contractVars
    /\ UNCHANGED <<venueVars, applied_before, gatewayVars, orderBook, prepVars, sideVars, priceVars, marketVars, openInterestVars, position_value, sizeVars, placeVars>>

\* hedger.py:149-162, bitget/api.py:197-207
GetOpenInterest ==
    /\ pc = "get_open_interest"
    /\ \/ /\ \E open_interest \in OpenInterests :
                /\ bitget_open_interest' = open_interest
                /\ max_bitget_size' = _calculate_max_bitget_size(position_limit, open_interest, bitget_multiplier)
          /\ pc' = "validate_size_constraints"
          /\ UNCHANGED <<error, result>>
       \/ /\ \E cls \in {"BitgetAPIError", "BitgetError"} : Raise(cls)
          /\ UNCHANGED openInterestVars
    /\ UNCHANGED <<venueVars, applied_before, gatewayVars, orderBook, prepVars, sideVars, priceVars, marketVars, contractVars, position_value, sizeVars, placeVars>>

(***************************************************************************)
(* Sizing (hedger.py:164-228).                                             *)
(***************************************************************************)
\* hedger.py:164-166
ValidateSizeConstraints ==
    /\ pc = "validate_size_constraints"
    /\ LET outcome == _validate_size_constraints(min_paradex_size, max_paradex_size, min_bitget_size, max_bitget_size)
       IN  IF outcome = "ok"
           THEN pc' = "calculate_position_value" /\ UNCHANGED <<error, result>>
           ELSE Raise(outcome)
    /\ UNCHANGED <<venueVars, applied_before, gatewayVars, orderBook, prepVars, sideVars, priceVars, marketVars, contractVars, openInterestVars, position_value, sizeVars, placeVars>>

\* hedger.py:168-176, utils.py:6-24
CalculatePositionValue ==
    /\ pc = "calculate_position_value"
    /\ LET min_available_balance == Min2(paradex_balance, bitget_balance)
           min_trade_amount == Max2(min_notional_paradex, min_notional_bitget)
           bounds == PositionBounds(min_trade_amount, POSITION_USD_LIMITS, min_available_balance)
       IN  IF bounds = <<>>
           THEN Raise("InsufficientFundsError") /\ UNCHANGED position_value
           ELSE /\ \E random_position \in PositionDraws(bounds[1], FloatOfMaxPosition(bounds[2], POSITION_USD_LIMITS)) : position_value' = random_position
                /\ pc' = "compute_sizes"
                /\ UNCHANGED <<error, result>>
    /\ UNCHANGED <<venueVars, applied_before, gatewayVars, orderBook, prepVars, sideVars, priceVars, marketVars, contractVars, openInterestVars, sizeVars, placeVars>>

\* hedger.py:178-217
ComputeSizes ==
    /\ pc = "compute_sizes"
    /\ raw_paradex_size' = RawSize(position_value, paradex_price, paradex_increment)
    /\ raw_bitget_size' = RawSize(position_value, bitget_price, bitget_multiplier)
    /\ max_affordable_paradex_size' = MaxAffordable(paradex_balance, paradex_price, paradex_increment, max_paradex_size)
    /\ max_affordable_bitget_size' = MaxAffordable(bitget_balance, bitget_price, bitget_multiplier, max_bitget_size)
    /\ common_size' = _find_common_size(raw_paradex_size', raw_bitget_size', paradex_increment, bitget_multiplier, min_paradex_size, min_bitget_size, max_affordable_paradex_size', max_affordable_bitget_size')
    /\ LET chosen == ChosenSizes(common_size', raw_paradex_size', raw_bitget_size', max_paradex_size, max_bitget_size, max_affordable_paradex_size', max_affordable_bitget_size')
       IN  paradex_size' = chosen[1] /\ bitget_size' = chosen[2]
    /\ pc' = "validate_final_sizes"
    /\ UNCHANGED <<venueVars, applied_before, gatewayVars, orderBook, error, result, prepVars, sideVars, priceVars, marketVars, contractVars, openInterestVars, position_value, placeVars>>

\* one more call of an order endpoint has been issued
Bump(call) == calls' = [calls EXCEPT ![call] = @ + 1]

\* hedger.py:71-78  the Order object place_paradex_order builds
NewOrder(order_side, size, reduce_only) ==
    [order_side |-> order_side, size |-> size, reduce_only |-> reduce_only]

\* fault variant of ValidateFinalSizes: the attempt is given up when no
\* common size was found
ValidateFinalSizesRequiresCommonSize ==
    /\ pc = "validate_final_sizes"
    /\ LET outcome == _validate_final_sizes(paradex_size, bitget_size, min_paradex_size, min_bitget_size, paradex_price, bitget_price, paradex_balance, bitget_balance)
       IN  IF outcome = "ok" /\ common_size # None
           THEN /\ pc' = "sign_order"
                /\ order' = NewOrder(paradex_side, paradex_size, FALSE)
                /\ call_site' = "leg_a"
                /\ UNCHANGED <<error, result>>
           ELSE /\ Raise(IF outcome = "ok" THEN "ValueError" ELSE outcome)
                /\ UNCHANGED <<order, call_site>>
    /\ UNCHANGED <<venueVars, applied_before, gatewayVars, orderBook, prepVars, sideVars, priceVars, marketVars, contractVars, openInterestVars, position_value, sizeVars, paradex_order_id, bitget_order_id, bitget_error>>

\* fault variant of ValidateFinalSizes: leg A is submitted to paradex before
\* the outcome of the final validation is looked at
ValidateFinalSizesAfterSubmitting ==
    /\ pc = "validate_final_sizes"
    /\ LET outcome == _validate_final_sizes(paradex_size, bitget_size, min_paradex_size, min_bitget_size, paradex_price, bitget_price, paradex_balance, bitget_balance)
       IN  IF outcome = "ok"
           THEN /\ pc' = "sign_order"
                /\ order' = NewOrder(paradex_side, paradex_size, FALSE)
                /\ call_site' = "leg_a"
                /\ UNCHANGED <<error, result, orderBook>>
           ELSE /\ Raise(outcome)
                /\ Bump("paradex_place_order")
                /\ UNCHANGED <<order, call_site, paradex_orders, bitget_orders>>
    /\ UNCHANGED <<venueVars, applied_before, gatewayVars, prepVars, sideVars, priceVars, marketVars, contractVars, openInterestVars, position_value, sizeVars, paradex_order_id, bitget_order_id, bitget_error>>

\* hedger.py:219-239, 352-363  final validation, then place_orders calls
\* place_paradex_order for leg A
ValidateFinalSizes ==
    /\ pc = "validate_final_sizes"
    /\ LET outcome == _validate_final_sizes(paradex_size, bitget_size, min_paradex_size, min_bitget_size, paradex_price, bitget_price, paradex_balance, bitget_balance)
       IN  IF outcome = "ok"
           THEN /\ pc' = "sign_order"
                /\ order' = NewOrder(paradex_side, paradex_size, FALSE)
                /\ call_site' = "leg_a"
                /\ UNCHANGED <<error, result>>
           ELSE Raise(outcome) /\ UNCHANGED <<order, call_site>>
    /\ UNCHANGED <<venueVars, applied_before, gatewayVars, orderBook, prepVars, sideVars, priceVars, marketVars, contractVars, openInterestVars, position_value, sizeVars, paradex_order_id, bitget_order_id, bitget_error>>

(***************************************************************************)
(* place_orders (hedger.py:341-420) and place_paradex_order (63-95).       *)
(* call_site tells which call of place_paradex_order is running: "leg_a"   *)
(* (line 358) or "compensation" (lines 381 and 401, inside the handlers of *)
(* the inner try).  Either way an exception it raises leaves through the   *)
(* outer handlers of place_orders.                                         *)
(***************************************************************************)
sizingVars == <<prepVars, sideVars, priceVars, marketVars, contractVars, openInterestVars, position_value, sizeVars>>

\* an exception of class cls leaves the outer try body of place_orders
RaiseFromPlaceOrders(cls) == Raise(OuterHandler(cls))

SetStatus(order_id, status) ==
    paradex_orders' = [paradex_orders EXCEPT ![order_id].status = status]

\* fault variant of SignOrder: signing waits for the config to be loaded
SignOrderWaitsForConfig ==
    /\ pc = "sign_order"
    /\ config
    /\ pc' = "place_order"
    /\ UNCHANGED <<error, result>>
    /\ UNCHANGED <<venueVars, applied_before, gatewayVars, orderBook, sizingVars, placeVars>>

\* hedger.py:80-84, api.py:322-334  sign_order raises when the config is not loaded
SignOrder ==
    /\ pc = "sign_order"
    /\ IF config
       THEN pc' = "place_order" /\ UNCHANGED <<error, result>>
       ELSE RaiseFromPlaceOrders("ParadexAPIError")
    /\ UNCHANGED <<venueVars, applied_before, gatewayVars, orderBook, sizingVars, placeVars>>

\* fault variant of PlaceOrder: a rejected request is sent again
PlaceOrderRetriesOnFailure ==
    /\ pc = "place_order"
    /\ Bump("paradex_place_order")
    /\ \/ /\ paradex_orders' = Append(paradex_orders, [order_side |-> order.order_side, size |-> order.size, reduce_only |-> order.reduce_only, status |-> "NEW"])
          /\ pc' = "get_order"
          /\ UNCHANGED <<error, result>>
       \/ /\ pc' = "place_order"
          /\ UNCHANGED <<paradex_orders, error, result>>
    /\ UNCHANGED <<venueVars, applied_before, gatewayVars, bitget_orders, sizingVars, placeVars>>

\* hedger.py:86-87, api.py:216-231
PlaceOrder ==
    /\ pc = "place_order"
    /\ Bump("paradex_place_order")
    /\ \/ /\ paradex_orders' = Append(paradex_orders, [order_side |-> order.order_side, size |-> order.size, reduce_only |-> order.reduce_only, status |-> "NEW"])
          /\ pc' = "get_order"
          /\ UNCHANGED <<error, result>>
       \/ /\ RaiseFromPlaceOrders("ParadexAPIError")
          /\ UNCHANGED paradex_orders
    /\ UNCHANGED <<venueVars, applied_before, gatewayVars, bitget_orders, sizingVars, placeVars>>

\* fault variant of GetOrder: the cancel reason of the re-fetched leg-A
\* order is not looked at
GetOrderIgnoresCancelReason ==
    /\ pc = "get_order"
    /\ Bump("paradex_get_order")
    /\ LET order_id == Len(paradex_orders)
       IN  \/ /\ SetStatus(order_id, "OPEN")
              /\ IF call_site = "leg_a"
                 THEN /\ paradex_order_id' = order_id
                      /\ pc' = "bitget_place_order"
                      /\ UNCHANGED <<error, result>>
                 ELSE /\ RaiseFromPlaceOrders(InnerReraise(bitget_error))
                      /\ UNCHANGED paradex_order_id
           \/ /\ SetStatus(order_id, "CANCELLED_BY_VENUE")
              /\ IF call_site = "leg_a"
                 THEN /\ paradex_order_id' = order_id
                      /\ pc' = "bitget_place_order"
                      /\ UNCHANGED <<error, result>>
                 ELSE /\ RaiseFromPlaceOrders("OrderCancelledError")
                      /\ UNCHANGED paradex_order_id
           \/ /\ RaiseFromPlaceOrders("ParadexAPIError")
              /\ UNCHANGED <<paradex_orders, paradex_order_id>>
    /\ UNCHANGED <<venueVars, applied_before, gatewayVars, bitget_orders, sizingVars, order, call_site, bitget_order_id, bitget_error>>

\* hedger.py:89-95, api.py:253-268; on return, place_orders goes on at line
\* 365 (leg A) or at line 390/410 followed by the handler's raise (394/414)
GetOrder ==
    /\ pc = "get_order"
    /\ Bump("paradex_get_order")
    /\ LET order_id == Len(paradex_orders)
       IN  \/ /\ SetStatus(order_id, "OPEN")
              /\ IF call_site = "leg_a"
                 THEN /\ paradex_order_id' = order_id
                      /\ pc' = "bitget_place_order"
                      /\ UNCHANGED <<error, result>>
                 ELSE /\ RaiseFromPlaceOrders(InnerReraise(bitget_error))
                      /\ UNCHANGED paradex_order_id
           \/ /\ SetStatus(order_id, "CANCELLED_BY_VENUE")
              /\ RaiseFromPlaceOrders("OrderCancelledError")
              /\ UNCHANGED paradex_order_id
           \/ /\ RaiseFromPlaceOrders("ParadexAPIError")
              /\ UNCHANGED <<paradex_orders, paradex_order_id>>
    /\ UNCHANGED <<venueVars, applied_before, gatewayVars, bitget_orders, sizingVars, order, call_site, bitget_order_id, bitget_error>>

\* fault variant of BitgetPlaceOrder: a failure other than OrderCancelledError
\* is wrapped and raised without compensating leg A
BitgetPlaceOrderWithoutCompensation ==
    /\ pc = "bitget_place_order"
    /\ Bump("bitget_place_order")
    /\ \/ /\ bitget_orders' = Append(bitget_orders, [side |-> bitget_side, size |-> bitget_size])
          /\ bitget_order_id' = Len(bitget_orders')
          /\ result' = <<paradex_order_id, bitget_order_id'>>
          /\ pc' = "returned"
          /\ UNCHANGED <<error, bitget_error>>
       \/ /\ bitget_error' = "OrderCancelledError"
          /\ pc' = "cancel_order"
          /\ UNCHANGED <<bitget_orders, bitget_order_id, error, result>>
       \/ /\ bitget_error' = "BitgetAPIError"
          /\ RaiseFromPlaceOrders("BitgetError")
          /\ UNCHANGED <<bitget_orders, bitget_order_id>>
    /\ UNCHANGED <<venueVars, applied_before, gatewayVars, paradex_orders, sizingVars, order, call_site, paradex_order_id>>

\* fault variant of BitgetPlaceOrder: a response whose msg is not "success"
\* is taken for a placed order
BitgetPlaceOrderReturnsOnRejection ==
    /\ pc = "bitget_place_order"
    /\ Bump("bitget_place_order")
    /\ \/ /\ bitget_orders' = Append(bitget_orders, [side |-> bitget_side, size |-> bitget_size])
          /\ bitget_order_id' = Len(bitget_orders')
          /\ result' = <<paradex_order_id, bitget_order_id'>>
          /\ pc' = "returned"
          /\ UNCHANGED <<error, bitget_error>>
       \/ /\ result' = <<paradex_order_id, None>>
          /\ pc' = "returned"
          /\ UNCHANGED <<bitget_orders, bitget_order_id, error, bitget_error>>
       \/ /\ bitget_error' = "BitgetAPIError"
          /\ pc' = "cancel_order"
          /\ UNCHANGED <<bitget_orders, bitget_order_id, error, result>>
    /\ UNCHANGED <<venueVars, applied_before, gatewayVars, paradex_orders, sizingVars, order, call_site, paradex_order_id>>

\* hedger.py:97-109, 367-374, bitget/api.py:58-85, 173-195
BitgetPlaceOrder ==
    /\ pc = "bitget_place_order"
    /\ Bump("bitget_place_order")
    /\ \/ /\ bitget_orders' = Append(bitget_orders, [side |-> bitget_side, size |-> bitget_size])
          /\ bitget_order_id' = Len(bitget_orders')
          /\ result' = <<paradex_order_id, bitget_order_id'>>
          /\ pc' = "returned"
          /\ UNCHANGED <<error, bitget_error>>
       \/ /\ \E caught \in {"OrderCancelledError", "BitgetAPIError"} : bitget_error' = caught
          /\ pc' = "cancel_order"
          /\ UNCHANGED <<bitget_orders, bitget_order_id, error, result>>
    /\ UNCHANGED <<venueVars, applied_before, gatewayVars, paradex_orders, sizingVars, order, call_site, paradex_order_id>>

\* fault variant of CancelOrder: the flattening order repeats leg A's side
CancelOrderFlattenSameSide ==
    /\ pc = "cancel_order"
    /\ Bump("paradex_cancel_order")
    /\ \/ /\ SetStatus(paradex_order_id, "CANCELLED")
          /\ RaiseFromPlaceOrders(InnerReraise(bitget_error))
          /\ UNCHANGED <<order, call_site>>
       \/ /\ SetStatus(paradex_order_id, "CLOSED")
          /\ order' = NewOrder(paradex_side, paradex_size, TRUE)
          /\ call_site' = "compensation"
          /\ pc' = "sign_order"
          /\ UNCHANGED <<error, result>>
       \/ /\ RaiseFromPlaceOrders("ParadexAPIError")
          /\ UNCHANGED <<paradex_orders, order, call_site>>
    /\ UNCHANGED <<venueVars, applied_before, gatewayVars, bitget_orders, sizingVars, paradex_order_id, bitget_order_id, bitget_error>>

\* hedger.py:376-392 and 396-412 (the two handlers run the same statements),
\* api.py:233-251
CancelOrder ==
    /\ pc = "cancel_order"
    /\ Bump("paradex_cancel_order")
    /\ \/ /\ SetStatus(paradex_order_id, "CANCELLED")
          /\ RaiseFromPlaceOrders(InnerReraise(bitget_error))
          /\ UNCHANGED <<order, call_site>>
       \/ /\ SetStatus(paradex_order_id, "CLOSED")
          /\ order' = NewOrder(OppositeSide(paradex_side), paradex_size, TRUE)
          /\ call_site' = "compensation"
          /\ pc' = "sign_order"
          /\ UNCHANGED <<error, result>>
       \/ /\ RaiseFromPlaceOrders("ParadexAPIError")
          /\ UNCHANGED <<paradex_orders, order, call_site>>
    /\ UNCHANGED <<venueVars, applied_before, gatewayVars, bitget_orders, sizingVars, paradex_order_id, bitget_order_id, bitget_error>>

(***************************************************************************)
(* The attempt.                                                            *)
(***************************************************************************)
Next ==
    \/ GetAccountInfo
    \/ GetMarginConfiguration
    \/ SetMarginConfiguration
    \/ GetAccountDetails
    \/ SetPositionMode
    \/ SetMarginMode
    \/ SetLeverage
    \/ GetRandomOrderSide
    \/ GetBbo
    \/ GetFuturePrice
    \/ GetMarketData
    \/ GetContractDetails
    \/ GetOpenInterest
    \/ ValidateSizeConstraints
    \/ CalculatePositionValue
    \/ ComputeSizes
    \/ ValidateFinalSizes
    \/ SignOrder
    \/ PlaceOrder
    \/ GetOrder
    \/ BitgetPlaceOrder
    \/ CancelOrder

Spec == Init /\ [][Next]_vars

\* every awaited venue call returns or fails, and the statements between two
\* calls run to the next call: a step that can be taken is taken
LiveSpec == Init /\ [][Next]_vars /\ WF_vars(Next)

\* hedger.py:111-116  execute_hedge_strategy is called again on the same
\* manager once the attempt before it has ended: every local starts over and
\* the orders and calls are counted anew, the venues keep the configuration
\* they were left in
NewAttempt ==
    /\ Terminal
    /\ pc' = "get_account_info"
    /\ paradex_orders' = <<>> /\ bitget_orders' = <<>> /\ calls' = NoCalls
    /\ error' = "" /\ result' = <<>>
    /\ paradex_available' = None /\ bitget_available' = None
    /\ paradex_balance' = None /\ bitget_balance' = None
    /\ bitget_side' = "" /\ paradex_side' = ""
    /\ paradex_price' = None /\ bitget_price' = None
    /\ paradex_increment' = None /\ min_notional_paradex' = None
    /\ min_paradex_size' = None /\ max_paradex_size' = None
    /\ bitget_multiplier' = None /\ min_notional_bitget' = None
    /\ min_bitget_size' = None /\ position_limit' = None
    /\ bitget_open_interest' = None /\ max_bitget_size' = None
    /\ position_value' = None
    /\ raw_paradex_size' = None /\ raw_bitget_size' = None
    /\ paradex_size' = None /\ bitget_size' = None
    /\ max_affordable_paradex_size' = None /\ max_affordable_bitget_size' = None
    /\ common_size' = None
    /\ order' = NoOrder /\ call_site' = "" /\ paradex_order_id' = None
    /\ bitget_order_id' = None /\ bitget_error' = ""
    /\ applied_before' = (applied_before \/ bitget_balance # None)
    /\ UNCHANGED <<venueVars, gatewayVars>>

RepeatNext ==
    \/ Next
    \/ NewAttempt

RepeatSpec == Init /\ [][RepeatNext]_vars

(***************************************************************************)
(* The sizing and placement of one attempt on a market with increments     *)
(* 0.01 and 0.001: sizes are counted in thousandths here, so the paradex   *)
(* increment is 10 and the bitget multiplier is 1.  The minimum sizes are  *)
(* 0.02 and 0.002, both venues cap an order at 1.0, and the balances       *)
(* afford more than that at either price.  At the price of one tick the    *)
(* paradex minimum notional is 15 ticks, which also gives 0.02.            *)
(***************************************************************************)
\* the position values calculate_position_value can draw (utils.py:10-24)
ExamplePositionValues == { Dollars(d) : d \in 50..1000 }

\* prices per thousandth: 3 dollars, and the smallest price there is
ExamplePrices == { Dollars(3), 1 }

\* hedger.py:111-176  the state execute_hedge_strategy is in when it comes
\* to compute the sizes
ExampleInit ==
    /\ config = TRUE
    /\ margin_configuration = [leverage |-> 1, margin_type |-> "ISOLATED"]
    /\ account_details = [marginMode |-> "isolated", posMode |-> "one_way_mode", isolatedLongLever |-> 1, isolatedShortLever |-> 1]
    /\ pc = "compute_sizes"
    /\ applied_before = FALSE
    /\ GatewayAtRest
    /\ paradex_orders = <<>> /\ bitget_orders = <<>> /\ calls = NoCalls
    /\ error = "" /\ result = <<>>
    /\ paradex_available = Dollars(4000) /\ bitget_available = Dollars(4000)
    /\ paradex_balance = Scale95(paradex_available)
    /\ bitget_balance = Scale95(bitget_available)
    /\ \E side \in {"buy", "sell"} :
          /\ bitget_side = side
          /\ paradex_side = IF side = "buy" THEN "Sell" ELSE "Buy"
    /\ paradex_price \in ExamplePrices
    /\ bitget_price = paradex_price
    /\ paradex_increment = 10 /\ bitget_multiplier = 1
    /\ min_notional_paradex = (IF paradex_price = 1 THEN 15 ELSE Dollars(50))
    /\ min_notional_bitget = Dollars(5)
    /\ min_paradex_size = _calculate_min_paradex_size(min_notional_paradex, paradex_price, paradex_increment)
    /\ min_bitget_size = 2
    /\ max_paradex_size = 1000
    /\ position_limit = 5 /\ bitget_open_interest = 21053
    /\ max_bitget_size = _calculate_max_bitget_size(position_limit, bitget_open_interest, bitget_multiplier)
    /\ position_value \in ExamplePositionValues
    /\ raw_paradex_size = None /\ raw_bitget_size = None
    /\ paradex_size = None /\ bitget_size = None
    /\ max_affordable_paradex_size = None /\ max_affordable_bitget_size = None
    /\ common_size = None
    /\ order = NoOrder /\ call_site = "" /\ paradex_order_id = None
    /\ bitget_order_id = None /\ bitget_error = ""

\* hedger.py:178-243, 341-420  the attempt from the sizing on
ExampleNext ==
    \/ ComputeSizes
    \/ ValidateFinalSizes
    \/ SignOrder
    \/ PlaceOrder
    \/ GetOrder
    \/ BitgetPlaceOrder
    \/ CancelOrder

ExampleSpec == ExampleInit /\ [][ExampleNext]_vars

(***************************************************************************)
(* ParadexAPI.cancel_order on its own (paradex/api.py:233-251), with the   *)
(* request it makes (_make_request, 39-68) and the token refresh that an   *)
(* expired-token answer sets off (_check_token_expiry, 336-347).  An       *)
(* answer is a record: the status code, whether the body is JSON, the      *)
(* error field of the body, whether the body has a message field and       *)
(* whether that message is the expiry message, and what the venue did with *)
(* the order.                                                              *)
(***************************************************************************)
Answer(status, json, err, has_message, expired, effect) ==
    [status |-> status, json |-> json, error |-> err, has_message |-> has_message, expired |-> expired, effect |-> effect]

\* the answers of the venue to DELETE /orders/{order_id}
CancelResponses ==
    { Answer(200, TRUE, "", FALSE, FALSE, "cancelled"),
      Answer(204, FALSE, "", FALSE, FALSE, "cancelled"),
      Answer(400, TRUE, "ORDER_IS_CLOSED", TRUE, FALSE, "closed"),
      Answer(400, TRUE, "ORDER_ID_NOT_FOUND", TRUE, FALSE, "none"),
      Answer(401, TRUE, "INVALID_TOKEN", TRUE, TRUE, "none"),
      Answer(401, TRUE, "INVALID_TOKEN", TRUE, FALSE, "none"),
      Answer(401, TRUE, "INVALID_TOKEN", FALSE, FALSE, "none"),
      Answer(401, FALSE, "", FALSE, FALSE, "none"),
      Answer(500, TRUE, "INTERNAL_ERROR", TRUE, FALSE, "none"),
      Answer(502, FALSE, "", FALSE, FALSE, "none"),
      NoResponse }

\* the answers of the venue to POST /auth
AuthResponses ==
    { Answer(200, TRUE, "", FALSE, FALSE, "none"),
      Answer(200, FALSE, "", FALSE, FALSE, "none"),
      Answer(401, TRUE, "INVALID_SIGNATURE", TRUE, FALSE, "none"),
      Answer(401, TRUE, "INVALID_TOKEN", TRUE, TRUE, "none"),
      Answer(502, FALSE, "", FALSE, FALSE, "none"),
      NoResponse }

\* the answers of the venue to GET /system/config
ConfigResponses ==
    { Answer(200, TRUE, "", FALSE, FALSE, "none"),
      Answer(401, TRUE, "INVALID_TOKEN", TRUE, TRUE, "none"),
      Answer(502, FALSE, "", FALSE, FALSE, "none"),
      NoResponse }

\* api.py:39-54  a request as it leaves _make_request: its path, the token
\* in its Authorization header and the check_jwt flag it was made with
Request(path, token, check_jwt) ==
    [path |-> path, token |-> token, check_jwt |-> check_jwt]

\* api.py:56-59  the body _make_request hands on: {} when it is not JSON
HasMessage(answer) == answer.json /\ answer.has_message

\* utils.py:8-18  is_token_expired: "raises" stands for the KeyError of
\* response["message"] on a body without that field
is_token_expired(answer) ==
    IF answer.status # 401 THEN "no"
    ELSE IF ~HasMessage(answer) THEN "raises"
    ELSE IF answer.expired THEN "yes" ELSE "no"

\* api.py:64-67
Success(answer) == 200 <= answer.status /\ answer.status < 300

\* the gateway is constructed (api.py:23-32) and may have been given its
\* credentials and a token
GatewayInit ==
    /\ config \in BOOLEAN
    /\ margin_configuration = [leverage |-> 1, margin_type |-> "ISOLATED"]
    /\ account_details = [marginMode |-> "isolated", posMode |-> "one_way_mode", isolatedLongLever |-> 1, isolatedShortLever |-> 1]
    /\ pc = "cancel_order_request"
    /\ FreshAttempt
    /\ applied_before = FALSE
    /\ credentials \in BOOLEAN
    /\ jwt_token \in {0, 1}
    /\ response \in CancelResponses
    /\ auth_response \in AuthResponses
    /\ config_response \in ConfigResponses
    /\ sent = <<>>

\* an exception of class cls leaves cancel_order
GatewayRaise(cls) ==
    /\ pc' = "raised"
    /\ error' = cls
    /\ result' = result

gatewayRest == <<venueVars, orderBook, prepVars, restAfterPrep, applied_before>>

\* api.py:233-237, 39-54  the DELETE request is sent with the token held
CancelOrderRequest ==
    /\ pc = "cancel_order_request"
    /\ sent' = Append(sent, Request("DELETE /orders", jwt_token, TRUE))
    /\ IF response = NoResponse
       THEN GatewayRaise("ClientError")
       ELSE pc' = "check_token_expiry" /\ UNCHANGED <<error, result>>
    /\ UNCHANGED <<gatewayRest, credentials, jwt_token, response, auth_response, config_response>>

\* api.py:56-62, 336-347  the body is parsed and looked at for token expiry
CheckTokenExpiry ==
    /\ pc = "check_token_expiry"
    /\ LET expired == is_token_expired(response)
       IN  IF expired = "raises" THEN GatewayRaise("KeyError")
           ELSE IF expired = "no" THEN pc' = "cancel_order_response" /\ UNCHANGED <<error, result>>
           ELSE IF ~credentials THEN GatewayRaise("ParadexAPIError")
           ELSE /\ pc' = (IF config THEN "get_jwt_token" ELSE "get_config")
                /\ UNCHANGED <<error, result>>
    /\ UNCHANGED <<gatewayRest, gatewayVars>>

\* api.py:88-89, 70-85  get_jwt_token finds the configuration empty and
\* calls get_config, whose request is made with check_jwt=False
GetConfig ==
    /\ pc = "get_config"
    /\ sent' = Append(sent, Request("GET /system/config", jwt_token, FALSE))
    /\ IF config_response = NoResponse
       THEN GatewayRaise("ClientError") /\ UNCHANGED config
       ELSE IF ~config_response.json
       THEN GatewayRaise("ContentTypeError") /\ UNCHANGED config
       ELSE IF Success(config_response)
       THEN /\ config' = TRUE
            /\ pc' = "get_jwt_token"
            /\ UNCHANGED <<error, result>>
       ELSE GatewayRaise("ParadexAPIError") /\ UNCHANGED config
    /\ UNCHANGED <<margin_configuration, account_details, orderBook, prepVars, restAfterPrep, applied_before>>
    /\ UNCHANGED <<credentials, jwt_token, response, auth_response, config_response>>

\* fault variant of GetJwtToken: with the token renewed the original request
\* is sent again
GetJwtTokenResendsRequest ==
    /\ pc = "get_jwt_token"
    /\ sent' = Append(sent, Request("POST /auth", 0, FALSE))
    /\ IF auth_response = NoResponse
       THEN GatewayRaise("ClientError") /\ UNCHANGED jwt_token
       ELSE IF ~auth_response.json
       THEN GatewayRaise("ContentTypeError") /\ UNCHANGED jwt_token
       ELSE IF Success(auth_response)
       THEN /\ jwt_token' = jwt_token + 1
            /\ pc' = "cancel_order_request"
            /\ UNCHANGED <<error, result>>
       ELSE GatewayRaise("ParadexAPIError") /\ UNCHANGED jwt_token
    /\ UNCHANGED <<gatewayRest, credentials, response, auth_response, config_response>>

\* api.py:91-130  get_jwt_token, called by _check_token_expiry: its request
\* carries the signature headers, no token, and is made with check_jwt=False
GetJwtToken ==
    /\ pc = "get_jwt_token"
    /\ sent' = Append(sent, Request("POST /auth", 0, FALSE))
    /\ IF auth_response = NoResponse
       THEN GatewayRaise("ClientError") /\ UNCHANGED jwt_token
       ELSE IF ~auth_response.json
       THEN GatewayRaise("ContentTypeError") /\ UNCHANGED jwt_token
       ELSE IF Success(auth_response)
       THEN /\ jwt_token' = jwt_token + 1
            /\ pc' = "cancel_order_response"
            /\ UNCHANGED <<error, result>>
       ELSE GatewayRaise("ParadexAPIError") /\ UNCHANGED jwt_token
    /\ UNCHANGED <<gatewayRest, credentials, response, auth_response, config_response>>

\* api.py:64-67, 239-251  cancel_order reads the body again and decides
CancelOrderResponse ==
    /\ pc = "cancel_order_response"
    /\ IF ~response.json
       THEN GatewayRaise("ContentTypeError")
       ELSE IF Success(response)
       THEN /\ pc' = "returned"
            /\ result' = <<[error |-> response.error]>>
            /\ UNCHANGED error
       ELSE IF response.error = "ORDER_IS_CLOSED"
       THEN /\ pc' = "returned"
            /\ result' = <<[error |-> "ORDER_IS_CLOSED"]>>
            /\ UNCHANGED error
       ELSE GatewayRaise("ParadexAPIError")
    /\ UNCHANGED <<gatewayRest, gatewayVars>>

GatewayNext ==
    \/ CancelOrderRequest
    \/ CheckTokenExpiry
    \/ GetConfig
    \/ GetJwtToken
    \/ CancelOrderResponse

GatewaySpec == GatewayInit /\ [][GatewayNext]_vars

(***************************************************************************)
(* _find_common_size on its own: the eight arguments are drawn directly.   *)
(* The paradex-side arguments range over 0..MaxUnits, the bitget-side      *)
(* arguments over a low, a middle and a high value, so that every          *)
(* combination of min_size, upper_limit and target_size in 0..MaxUnits is  *)
(* presented and both outcomes of each min/max of lines 287-290 occur.     *)
(***************************************************************************)
Units == 0..MaxUnits
BitgetProbes == {0, 3, MaxUnits}

FindInit ==
    /\ config = TRUE
    /\ margin_configuration = [leverage |-> 1, margin_type |-> "ISOLATED"]
    /\ account_details = [marginMode |-> "isolated", posMode |-> "one_way_mode", isolatedLongLever |-> 1, isolatedShortLever |-> 1]
    /\ pc = "find_common_size"
    /\ applied_before = FALSE
    /\ GatewayAtRest
    /\ paradex_orders = <<>> /\ bitget_orders = <<>> /\ calls = NoCalls
    /\ error = "" /\ result = <<>>
    /\ paradex_available = None /\ bitget_available = None
    /\ paradex_balance = None /\ bitget_balance = None
    /\ bitget_side = "" /\ paradex_side = ""
    /\ paradex_price = None /\ bitget_price = None
    /\ min_notional_paradex = None /\ max_paradex_size = None
    /\ min_notional_bitget = None /\ position_limit = None
    /\ bitget_open_interest = None /\ max_bitget_size = None /\ position_value = None
    /\ paradex_size = None /\ bitget_size = None
    /\ common_size = None
    /\ order = NoOrder /\ call_site = "" /\ paradex_order_id = None
    /\ bitget_order_id = None /\ bitget_error = ""
    /\ paradex_increment \in Increments
    /\ bitget_multiplier \in Increments
    /\ raw_paradex_size \in Units
    /\ raw_bitget_size \in BitgetProbes
    /\ min_paradex_size \in Units
    /\ min_bitget_size \in BitgetProbes
    /\ max_affordable_paradex_size \in Units
    /\ max_affordable_bitget_size \in BitgetProbes

\* hedger.py:198-207  the call of _find_common_size
ApplyFindCommonSize ==
    /\ pc = "find_common_size"
    /\ common_size' = _find_common_size(raw_paradex_size, raw_bitget_size, paradex_increment, bitget_multiplier, min_paradex_size, min_bitget_size, max_affordable_paradex_size, max_affordable_bitget_size)
    /\ pc' = "found"
    /\ UNCHANGED <<venueVars, applied_before, gatewayVars, orderBook, error, result, prepVars, sideVars, priceVars, marketVars, contractVars, openInterestVars, position_value, raw_paradex_size, raw_bitget_size, paradex_size, bitget_size, max_affordable_paradex_size, max_affordable_bitget_size, placeVars>>

FindNext == ApplyFindCommonSize

FindSpec == FindInit /\ [][FindNext]_vars

(***************************************************************************)
(* Vocabulary of the properties.                                           *)
(***************************************************************************)
\* the leg-A order is the first order paradex accepted
LegAAccepted == Len(paradex_orders) >= 1
LegA == paradex_orders[1]
LegACancelled == LegAAccepted /\ LegA.status \in {"CANCELLED", "CANCELLED_BY_VENUE"}
\* the reduce-only order was accepted and re-fetched without a cancel reason
LegAFlattened ==
    /\ Len(paradex_orders) = 2
    /\ paradex_orders[2].reduce_only
    /\ paradex_orders[2].status = "OPEN"
LegBExists == Len(bitget_orders) >= 1
\* place_paradex_order for leg A returned an order id
LegAReturned == paradex_order_id # None
\* place_bitget_order raised
LegBRaised == bitget_error # ""
\* compensation of leg A ran to its end: the cancel succeeded, or the order
\* was reported closed and the reduce-only order was placed and confirmed
CompensationCompleted ==
    /\ LegAAccepted
    /\ \/ LegA.status = "CANCELLED"
       \/ LegA.status = "CLOSED" /\ LegAFlattened

(***************************************************************************)
(* C1.  In every terminal state of the attempt it is never the case that   *)
(* the paradex leg-A order was accepted and is left neither cancelled nor  *)
(* flattened while no bitget leg-B order exists.                           *)
(* Fails: place_order accepts leg A and get_order then raises (or the      *)
(* cancel raises): the attempt ends with leg A open and no leg B.          *)
(***************************************************************************)
C1_NoOneSidedExposure ==
    Terminal => ~(LegAAccepted /\ ~LegACancelled /\ ~LegAFlattened /\ ~LegBExists)

(***************************************************************************)
(* C2.  cancel_order is called if and only if place_paradex_order for leg  *)
(* A returned an order id and place_bitget_order then raised; it is never  *)
(* called when leg-A placement itself fails.                               *)
(***************************************************************************)
C2_CompensationIffLegBFailed ==
    /\ calls.paradex_cancel_order > 0 => LegAReturned /\ LegBRaised
    /\ Terminal /\ LegAReturned /\ LegBRaised => calls.paradex_cancel_order > 0
    /\ Terminal /\ ~LegAReturned => calls.paradex_cancel_order = 0

C2_Witness ==
    Terminal /\ LegAReturned /\ LegBRaised /\ calls.paradex_cancel_order > 0

(***************************************************************************)
(* C3.  If leg B fails and the compensation of leg A cannot be completed,  *)
(* the error surfaced is HedgePositionMismatchError.                       *)
(* Fails: the class is never raised; a failed cancel surfaces as           *)
(* ParadexError, a venue-cancelled flattening order as OrderCancelledError.*)
(***************************************************************************)
C3_CompensationFailureIsMismatch ==
    Terminal /\ LegBRaised /\ ~CompensationCompleted => error = "HedgePositionMismatchError"

C5_LegBFailureSurfacesAsBitgetError ==
    Terminal /\ bitget_error = "BitgetAPIError" /\ CompensationCompleted
        => error = "BitgetError" /\ error # "ParadexError"

(***************************************************************************)
(* C6.  During compensation cancel_order is issued exactly once, for the   *)
(* leg-A order; a reduce-only order on the side opposite to leg A with leg *)
(* A's size is placed exactly when the cancel response reports the order   *)
(* closed; when the cancel succeeds outright no further order or cancel is *)
(* issued.                                                                 *)
(***************************************************************************)
C6_CancelOnceFlattenIffClosed ==
    /\ calls.paradex_cancel_order <= 1
    /\ Terminal /\ LegBRaised => calls.paradex_cancel_order = 1
    /\ Len(paradex_orders) = 2 => paradex_orders[2].status \notin {"CANCELLED", "CLOSED"}
    /\ calls.paradex_place_order = 2 =>
          /\ LegA.status = "CLOSED"
          /\ order = NewOrder(OppositeSide(LegA.order_side), LegA.size, TRUE)
    /\ Terminal /\ LegAAccepted /\ LegA.status = "CLOSED" => calls.paradex_place_order = 2
    /\ LegAAccepted /\ LegA.status = "CANCELLED" =>
          /\ Terminal
          /\ calls.paradex_place_order = 1
          /\ calls.paradex_get_order = 1
          /\ calls.paradex_cancel_order = 1
          /\ calls.bitget_place_order = 1

C6_Witness ==
    /\ Terminal /\ calls.paradex_cancel_order = 1
    /\ calls.paradex_place_order = 2 /\ Len(paradex_orders) = 2

(***************************************************************************)
(* C7.  If the re-fetched leg-A order carries a cancel reason, the attempt *)
(* surfaces OrderCancelledError, place_bitget_order is never called, and   *)
(* no cancel_order or reduce-only order is issued.                         *)
(***************************************************************************)
C7_VenueCancelledLegAAborts ==
    LegAAccepted /\ LegA.status = "CANCELLED_BY_VENUE" =>
        /\ pc = "raised"
        /\ error = "OrderCancelledError"
        /\ calls.bitget_place_order = 0
        /\ calls.paradex_cancel_order = 0
        /\ calls.paradex_place_order = 1
        /\ bitget_orders = <<>>

C7_Witness ==
    LegAAccepted /\ LegA.status = "CANCELLED_BY_VENUE" /\ pc = "raised"

(***************************************************************************)
(* Vocabulary of the sizing properties.                                    *)
(***************************************************************************)
\* the bounds _find_common_size searches between (hedger.py:287-290)
MinRequired == Max2(min_paradex_size, min_bitget_size)
UpperLimit == Min2(max_affordable_paradex_size, max_affordable_bitget_size)
Target == Max2(raw_paradex_size, raw_bitget_size)
\* the multiples of both increments in [lo, hi]
CommonMultiples(lo, hi) ==
    {w \in lo..hi : w % paradex_increment = 0 /\ w % bitget_multiplier = 0}
SetMin(S) == CHOOSE x \in S : \A y \in S : x <= y
SetMax(S) == CHOOSE x \in S : \A y \in S : x >= y
\* _find_common_size has been applied
Found == pc = "found"

(***************************************************************************)
(* C8.  _find_common_size returns either a value v with v % ia = 0,        *)
(* v % ib = 0 and minRequired <= v <= upperLimit, or None; and it returns  *)
(* None only when no multiple of both increments exists in                 *)
(* [minRequired, upperLimit].                                              *)
(* Fails: both scans step by min(ia, ib) from the ends of the range and    *)
(* skip common multiples that are not on that grid.                        *)
(***************************************************************************)
C8_FindCommonSizeSoundAndComplete ==
    Found =>
        /\ common_size # None =>
              /\ common_size % paradex_increment = 0
              /\ common_size % bitget_multiplier = 0
              /\ MinRequired <= common_size /\ common_size <= UpperLimit
        /\ common_size = None => CommonMultiples(MinRequired, UpperLimit) = {}

(***************************************************************************)
(* C9.  Whenever some multiple of both increments lies in                  *)
(* [max(minRequired, target), upperLimit], _find_common_size returns the   *)
(* smallest such value; only when there is none does it return the largest *)
(* multiple of both increments in [minRequired, upperLimit].               *)
(* Fails for the reason C8 fails.                                          *)
(***************************************************************************)
C9_SmallestAtLeastTargetElseLargest ==
    Found =>
        LET above == CommonMultiples(Max2(MinRequired, Target), UpperLimit)
            all == CommonMultiples(MinRequired, UpperLimit)
        IN  /\ above # {} => common_size = SetMin(above)
            /\ above = {} /\ all # {} => common_size = SetMax(all)

(***************************************************************************)
(* C10.  If a size divisible by both increments exists in                  *)
(* [max(minSizeA, minSizeB), min(affordableA, affordableB)], the two       *)
(* orders are placed with identical sizes; if none exists, every order     *)
(* placed has a size at least its venue's minSize, at most its venue's     *)
(* maxSize, and affordable from its venue's balance.                       *)
(* Fails with C8: a common size that exists is not found and the legs are  *)
(* placed with their own, different sizes.                                 *)
(***************************************************************************)
C10_CommonSizeUsedWhenItExists ==
    calls.paradex_place_order > 0 =>
        IF CommonMultiples(MinRequired, UpperLimit) # {}
        THEN calls.bitget_place_order > 0 => LegA.size = bitget_size
        ELSE /\ order.size >= min_paradex_size
             /\ order.size <= max_paradex_size
             /\ order.size * paradex_price <= paradex_balance
             /\ calls.bitget_place_order > 0 =>
                   /\ bitget_size >= min_bitget_size
                   /\ bitget_size <= max_bitget_size
                   /\ bitget_size * bitget_price <= bitget_balance

(***************************************************************************)
(* Vocabulary of the attempt-level sizing properties.                      *)
(***************************************************************************)
\* execute_hedge_strategy returned the pair of order ids
Returned == pc = "returned"
LegB == bitget_orders[1]
\* no order endpoint of either venue has been called
NothingIssued == calls = NoCalls /\ paradex_orders = <<>> /\ bitget_orders = <<>>
\* the attempt raised before place_orders was entered (hedger.py:115-228)
RaisedBeforePlacement == pc = "raised" /\ call_site = ""
\* ... at the min/max check of lines 164-166: the last constraint was
\* fetched and no position value was selected
RaisedAtSizeConstraints ==
    RaisedBeforePlacement /\ max_bitget_size # None /\ position_value = None /\ error # "InsufficientFundsError"
\* ... at position-value selection, lines 168-176
RaisedAtPositionValue ==
    RaisedBeforePlacement /\ max_bitget_size # None /\ position_value = None /\ error = "InsufficientFundsError"
\* ... at final validation, lines 219-228
RaisedAtFinalValidation == RaisedBeforePlacement /\ paradex_size # None

(***************************************************************************)
(* C11 as claimed.  Whenever execute_hedge_strategy returns successfully,  *)
(* the paradex order and the bitget order were placed with equal sizes.    *)
(* Fails: when no common size is found each leg keeps its own capped size  *)
(* (hedger.py:211-217) and both orders are placed all the same.            *)
(***************************************************************************)
C11_Original ==
    Returned => LegA.size = LegB.size

(***************************************************************************)
(* C11 as amended.  Whenever execute_hedge_strategy returns successfully   *)
(* and _find_common_size returned a common size, the paradex order and the *)
(* bitget order were both placed with that size.                           *)
(***************************************************************************)
C11_ReturnedLegsEqualWhenCommonSizeFound ==
    Returned /\ common_size # None /\ common_size # 0 =>
        LegA.size = common_size /\ LegB.size = common_size

C11_Witness ==
    Returned /\ common_size # None /\ common_size # 0 /\ LegA.size = LegB.size

(***************************************************************************)
(* C12.  If any step before order placement fails (venue preparation,      *)
(* price or constraint fetch, the min/max size check, position-value       *)
(* selection, final size validation), the attempt raises without any       *)
(* place_order or cancel_order call having been issued on either venue.    *)
(***************************************************************************)
C12_SizingFailureIssuesNoOrder ==
    /\ call_site = "" => NothingIssued
    /\ RaisedBeforePlacement => result = <<>> /\ error # ""

C12_Witness ==
    RaisedAtFinalValidation /\ error = "ValueError" /\ NothingIssued

(***************************************************************************)
(* C13.  If the maximum size of either venue is smaller than that venue's  *)
(* minimum size, the attempt fails with OrderSizeError, before position    *)
(* value selection and before any order is placed.                         *)
(* Fails: _validate_size_constraints raises the builtin ValueError, which  *)
(* is not an OrderSizeError.                                               *)
(***************************************************************************)
C13_MaxBelowMinIsOrderSizeError ==
    /\ pc \notin {"validate_size_constraints", "get_open_interest"}
    /\ max_bitget_size # None
    /\ (max_paradex_size < min_paradex_size \/ max_bitget_size < min_bitget_size)
    => /\ pc = "raised"
       /\ error = "OrderSizeError"
       /\ position_value = None
       /\ NothingIssued

(***************************************************************************)
(* C14.  In final validation, if either leg's size is below its venue's    *)
(* minimum size, or either leg's size * price exceeds that venue's         *)
(* balance, the attempt raises InsufficientFundsError and no order is      *)
(* placed; otherwise validation passes.                                    *)
(* Fails: a size below the minimum raises the builtin ValueError.          *)
(***************************************************************************)
C14_FinalValidationRaisesInsufficientFunds ==
    paradex_size # None /\ pc # "validate_final_sizes" =>
        IF \/ paradex_size < min_paradex_size
           \/ bitget_size < min_bitget_size
           \/ paradex_size * paradex_price > paradex_balance
           \/ bitget_size * bitget_price > bitget_balance
        THEN pc = "raised" /\ error = "InsufficientFundsError" /\ NothingIssued
        ELSE ~RaisedAtFinalValidation

(***************************************************************************)
(* Position-value selection (hedger.py:168-176) has been gone through.     *)
(***************************************************************************)
PositionValueDecided ==
    /\ max_bitget_size # None
    /\ pc \notin {"validate_size_constraints", "calculate_position_value"}
    /\ ~RaisedAtSizeConstraints
ConfiguredMinUSD == POSITION_USD_LIMITS[1]
ConfiguredMaxUSD == POSITION_USD_LIMITS[2]
MinPosition == Max2(Max2(min_notional_paradex, min_notional_bitget), ConfiguredMinUSD)

(***************************************************************************)
(* C15 as claimed.  minPosition = max(minNotional_A, minNotional_B,        *)
(* configuredMinUSD) and maxPosition = min(configuredMaxUSD, balanceA,     *)
(* balanceB) over the venues' available balances; the attempt raises       *)
(* InsufficientFundsError if minPosition > maxPosition, otherwise the      *)
(* chosen value v satisfies minPosition <= v <= maxPosition.               *)
(* Fails: the balances entering the minimum are the available balances     *)
(* times Decimal(0.95) (hedger.py:115-116).                                *)
(***************************************************************************)
C15_Original ==
    PositionValueDecided =>
        LET maxPosition == Min3(ConfiguredMaxUSD, paradex_available, bitget_available)
        IN  IF MinPosition > maxPosition
            THEN RaisedAtPositionValue
            ELSE position_value # None /\ MinPosition <= position_value /\ position_value <= maxPosition

(***************************************************************************)
(* C15 as amended.  The same with balanceA, balanceB the available         *)
(* balances multiplied by Decimal(0.95), a factor marginally below 0.95:   *)
(* the attempt raises InsufficientFundsError if minPosition exceeds        *)
(* min(configuredMaxUSD, balanceA, balanceB), otherwise the chosen value v *)
(* satisfies minPosition <= v <= min(configuredMaxUSD, 0.95 * availableA,  *)
(* 0.95 * availableB).                                                     *)
(***************************************************************************)
C15_PositionValueWithinScaledBalances ==
    PositionValueDecided =>
        LET maxPosition == Min3(ConfiguredMaxUSD, paradex_balance, bitget_balance)
        IN  /\ paradex_balance * 100 < paradex_available * 95
            /\ paradex_balance * 100 >= paradex_available * 95 - 100
            /\ bitget_balance * 100 < bitget_available * 95
            /\ bitget_balance * 100 >= bitget_available * 95 - 100
            /\ IF MinPosition > maxPosition
               THEN RaisedAtPositionValue
               ELSE /\ position_value # None
                    /\ MinPosition <= position_value
                    /\ position_value <= ConfiguredMaxUSD
                    /\ position_value * 100 <= paradex_available * 95
                    /\ position_value * 100 <= bitget_available * 95

\* available balances 40 and 100 or more: maxPosition is below every minPosition
C15_Witness ==
    RaisedAtPositionValue /\ paradex_available = Dollars(40) /\ paradex_balance < Dollars(38)

(***************************************************************************)
(* C16.  When _find_common_size finds no common size the attempt is not    *)
(* aborted for that reason: each leg's size becomes min(rawSize, maxSize,  *)
(* affordable) of its own venue, and if both sizes pass final validation   *)
(* the orders are placed with these sizes, equal or not.                   *)
(***************************************************************************)
C16_NoCommonSizeFallsBackToOwnSizes ==
    paradex_size # None /\ common_size = None =>
        LET outcome == _validate_final_sizes(paradex_size, bitget_size, min_paradex_size, min_bitget_size, paradex_price, bitget_price, paradex_balance, bitget_balance)
        IN  /\ paradex_size = Min3(raw_paradex_size, max_paradex_size, max_affordable_paradex_size)
            /\ bitget_size = Min3(raw_bitget_size, max_bitget_size, max_affordable_bitget_size)
            /\ RaisedAtFinalValidation => outcome # "ok" /\ error = outcome
            /\ outcome = "ok" /\ pc # "validate_final_sizes" => call_site # ""
            /\ LegAAccepted => LegA.size = paradex_size
            /\ LegBExists => LegB.size = bitget_size
            /\ Returned => LegAAccepted /\ LegBExists

C16_Witness ==
    Returned /\ common_size = None /\ LegA.size # LegB.size

(***************************************************************************)
(* Rounding to a venue's size grid, as the claims state it.                *)
(***************************************************************************)
\* the smallest multiple m of increment with m * den >= num
RoundUpToIncrement(num, den, increment) ==
    ((num + den * increment - 1) \div (den * increment)) * increment
\* the largest multiple m of increment with m * den <= num
RoundDownToIncrement(num, den, increment) ==
    (num \div (den * increment)) * increment

(***************************************************************************)
(* C17.  For each of the two venues the minimum tradable size used by      *)
(* sizing is the smallest multiple of that venue's increment that is       *)
(* >= 1.05 * minNotional / price.                                          *)
(* Fails: the bitget minimum is the venue's minTradeNum (hedger.py:147),   *)
(* and the paradex minimum is one increment higher whenever                *)
(* 1.05 * minNotional / price is itself a multiple of the increment, the   *)
(* factor Decimal(1.05) being built from a float (hedger.py:248).          *)
(***************************************************************************)
C17_MinSizeIsBufferedNotionalRoundedUp ==
    /\ min_paradex_size # None /\ paradex_price # None =>
          min_paradex_size = RoundUpToIncrement(min_notional_paradex * 105, 100 * paradex_price, paradex_increment)
    /\ min_bitget_size # None /\ bitget_price # None =>
          min_bitget_size = RoundUpToIncrement(min_notional_bitget * 105, 100 * bitget_price, bitget_multiplier)

(***************************************************************************)
(* C18 as claimed.  For each of the two venues the maximum tradable size   *)
(* used by sizing is the largest multiple of that venue's increment that   *)
(* is <= 0.95 * exposureLimit * openInterest (the exposure limit and open  *)
(* interest the attempt fetches are posLimit and the open interest of the  *)
(* bitget contract).                                                       *)
(* Fails: the paradex maximum is the max_order_size of the market data.    *)
(***************************************************************************)
C18_Original ==
    max_bitget_size # None =>
        /\ max_bitget_size = RoundDownToIncrement(position_limit * bitget_open_interest * 95, 100 * 100, bitget_multiplier)
        /\ max_paradex_size = RoundDownToIncrement(position_limit * bitget_open_interest * 95, 100 * 100, paradex_increment)

(***************************************************************************)
(* C18 as amended.  The bitget maximum tradable size is the largest        *)
(* multiple of sizeMultiplier that is <= 0.95 * posLimit * openInterest;   *)
(* the paradex maximum is the max_order_size the venue reports, a multiple *)
(* of its increment taken as it is.                                        *)
(***************************************************************************)
C18_BitgetMaxIsCappedExposureRoundedDown ==
    /\ max_bitget_size # None =>
          /\ max_bitget_size % bitget_multiplier = 0
          /\ max_bitget_size * 100 * 100 <= position_limit * bitget_open_interest * 95
          /\ (max_bitget_size + bitget_multiplier) * 100 * 100 > position_limit * bitget_open_interest * 95
    /\ max_paradex_size # None /\ paradex_price # None =>
          max_paradex_size \in {steps * paradex_increment : steps \in MaxOrderSizeSteps}

\* 0.95 * 0.05 * 400 = 19 is rounded down to 18 on a grid of 2 or of 3
C18_Witness ==
    /\ max_bitget_size # None /\ max_bitget_size > 0
    /\ max_bitget_size * 100 * 100 < position_limit * bitget_open_interest * 95

(***************************************************************************)
(* C19.  Within one attempt: both venues are prepared before any price or  *)
(* constraint fetch, sizing completes before any order, place_bitget_order *)
(* is never called before the leg-A order has been placed and re-fetched   *)
(* without a cancel reason, and cancel_order is never called before        *)
(* place_bitget_order has failed.                                          *)
(***************************************************************************)
C19_VenueCallsFollowTheSagaOrder ==
    /\ pc \in {"get_bbo", "get_future_price", "get_market_data", "get_contract_details", "get_open_interest"}
          \/ paradex_price # None =>
          /\ paradex_balance # None /\ bitget_balance # None
          /\ ~ParadexNeedsMarginUpdate(margin_configuration)
          /\ BitgetNextStep(account_details, 0) = "get_random_order_side"
    /\ calls # NoCalls \/ pc \in {"sign_order", "place_order"} =>
          /\ paradex_size # None /\ bitget_size # None
          /\ _validate_final_sizes(paradex_size, bitget_size, min_paradex_size, min_bitget_size, paradex_price, bitget_price, paradex_balance, bitget_balance) = "ok"
    /\ calls.bitget_place_order > 0 \/ pc = "bitget_place_order" =>
          /\ LegAAccepted /\ paradex_order_id = 1
          /\ calls.paradex_get_order >= 1
          /\ LegA.status \notin {"NEW", "CANCELLED_BY_VENUE"}
    /\ calls.paradex_cancel_order > 0 \/ pc = "cancel_order" =>
          /\ calls.bitget_place_order = 1
          /\ LegBRaised /\ ~LegBExists

C19_Witness ==
    /\ pc = "raised" /\ calls.paradex_cancel_order = 1 /\ LegA.status = "CANCELLED"
    /\ ~ParadexNeedsMarginUpdate(margin_configuration)

(***************************************************************************)
(* C20.  For either outcome of the side draw the paradex leg and the       *)
(* bitget leg carry opposite sides (exactly one Buy and one Sell); the     *)
(* side is fixed before any size is computed and never changes afterwards. *)
(***************************************************************************)
SidesOpposite ==
    \/ bitget_side = "buy" /\ paradex_side = "Sell"
    \/ bitget_side = "sell" /\ paradex_side = "Buy"
SidesDrawn == bitget_side # "" \/ paradex_side # ""

C20_LegsCarryOppositeSidesFixedAtTheDraw ==
    /\ [](/\ SidesDrawn => SidesOpposite
          /\ paradex_price # None \/ raw_paradex_size # None \/ paradex_size # None => SidesDrawn
          /\ LegAAccepted => LegA.order_side = paradex_side
          /\ LegBExists => LegB.side = bitget_side)
    /\ [][SidesDrawn => UNCHANGED sideVars]_vars

C20_Witness ==
    Returned /\ LegA.order_side = "Buy" /\ LegB.side = "sell" /\ LegA.size > 0

(***************************************************************************)
(* The position of the attempt in the program text: every step moves       *)
(* forward in this order.                                                  *)
(***************************************************************************)
StepRank ==
    CASE pc = "get_account_info" -> 1
      [] pc = "get_margin_configuration" -> 2
      [] pc = "set_margin_configuration" -> 3
      [] pc = "get_account_details" -> 4
      [] pc = "set_position_mode" -> 5
      [] pc = "set_margin_mode" -> 6
      [] pc = "set_leverage" -> 7
      [] pc = "get_random_order_side" -> 8
      [] pc = "get_bbo" -> 9
      [] pc = "get_future_price" -> 10
      [] pc = "get_market_data" -> 11
      [] pc = "get_contract_details" -> 12
      [] pc = "get_open_interest" -> 13
      [] pc = "validate_size_constraints" -> 14
      [] pc = "calculate_position_value" -> 15
      [] pc = "compute_sizes" -> 16
      [] pc = "validate_final_sizes" -> 17
      [] pc = "sign_order" /\ call_site = "leg_a" -> 18
      [] pc = "place_order" /\ call_site = "leg_a" -> 19
      [] pc = "get_order" /\ call_site = "leg_a" -> 20
      [] pc = "bitget_place_order" -> 21
      [] pc = "cancel_order" -> 22
      [] pc = "sign_order" /\ call_site = "compensation" -> 23
      [] pc = "place_order" /\ call_site = "compensation" -> 24
      [] pc = "get_order" /\ call_site = "compensation" -> 25
      [] pc \in {"returned", "raised"} -> 26
      [] OTHER -> 0

(***************************************************************************)
(* C22.  No venue call is retried within an attempt: bitget place_order is *)
(* issued at most once, paradex cancel_order at most once, paradex         *)
(* place_order at most twice (leg A plus at most one reduce-only order),   *)
(* and the first failure of a venue call ends the attempt with a raised    *)
(* error, never with a repeat of that call.                                *)
(***************************************************************************)
C22_NoVenueCallIsRetried ==
    /\ [](/\ calls.bitget_place_order <= 1
          /\ calls.paradex_cancel_order <= 1
          /\ calls.paradex_place_order <= 2
          /\ calls.paradex_get_order <= 2
          /\ calls.paradex_place_order = 2 => order.reduce_only /\ LegA.status = "CLOSED"
          /\ Len(paradex_orders) < calls.paradex_place_order => pc = "raised"
          /\ LegBRaised => pc # "returned"
          /\ Terminal /\ LegBRaised => pc = "raised" /\ error # "")
    /\ [][StepRank' > StepRank]_vars

C22_Witness ==
    /\ pc = "raised" /\ calls.paradex_place_order = 1 /\ paradex_orders = <<>>
    /\ calls.paradex_get_order = 0 /\ calls.bitget_place_order = 0

(***************************************************************************)
(* C23.  execute_hedge_strategy returns normally if and only if the leg-A  *)
(* order was placed and confirmed not cancelled and the leg-B placement    *)
(* reported success; it returns the pair (paradex order id, bitget order   *)
(* id) of those two orders, and no cancel_order or reduce-only order has   *)
(* been issued in that attempt.                                            *)
(***************************************************************************)
C23_ReturnsExactlyOnBothLegsPlaced ==
    /\ Returned =>
          /\ Len(paradex_orders) = 1 /\ LegA.status = "OPEN" /\ ~LegA.reduce_only
          /\ Len(bitget_orders) = 1 /\ ~LegBRaised
          /\ paradex_order_id = 1 /\ bitget_order_id = 1
          /\ result = <<paradex_order_id, bitget_order_id>>
          /\ calls.paradex_cancel_order = 0
          /\ calls.paradex_place_order = 1
          /\ error = ""
    /\ Terminal /\ LegAReturned /\ LegBExists => Returned
    /\ pc = "raised" => result = <<>> /\ ~(LegAReturned /\ LegBExists)

C23_Witness ==
    Returned /\ result = <<1, 1>> /\ LegA.status = "OPEN" /\ calls.paradex_get_order = 1

(***************************************************************************)
(* C26.  Whenever _find_common_size returns a non-zero value, final        *)
(* validation cannot fail: the common size is at least both venues'        *)
(* minimum sizes, at most both venues' maximum sizes, and its cost         *)
(* size * price on each venue does not exceed that venue's balance.        *)
(***************************************************************************)
C26_CommonSizePassesFinalValidation ==
    paradex_size # None /\ common_size # None /\ common_size # 0 =>
        /\ common_size >= min_paradex_size /\ common_size >= min_bitget_size
        /\ common_size <= max_paradex_size /\ common_size <= max_bitget_size
        /\ common_size * paradex_price <= paradex_balance
        /\ common_size * bitget_price <= bitget_balance
        /\ _validate_final_sizes(paradex_size, bitget_size, min_paradex_size, min_bitget_size, paradex_price, bitget_price, paradex_balance, bitget_balance) = "ok"
        /\ ~RaisedAtFinalValidation

C26_Witness ==
    /\ common_size # None /\ common_size # 0
    /\ pc = "sign_order" /\ call_site = "leg_a" /\ order.size = common_size

(***************************************************************************)
(* C27.  Every leg order placed by an attempt has notional value (size *   *)
(* that venue's reference price) no greater than the configured maximum    *)
(* position value POSITION_USD_LIMITS[1], on the common-size path and on   *)
(* the fallback path.                                                      *)
(* Fails: the common size is the first common multiple at or above the     *)
(* larger raw size, bounded by the balances and not by the position value. *)
(***************************************************************************)
C27_LegNotionalWithinConfiguredMaximum ==
    /\ LegAAccepted => LegA.size * paradex_price <= ConfiguredMaxUSD
    /\ LegBExists => LegB.size * bitget_price <= ConfiguredMaxUSD

(***************************************************************************)
(* C28.  Any leg-A failure other than a venue-initiated cancellation       *)
(* (place_order rejected, signing failure, get_order failing after the     *)
(* order was accepted) surfaces from place_orders as ParadexError, with no *)
(* leg-B order and no cancel issued; execute_hedge_strategy re-raises that *)
(* same error unchanged.                                                   *)
(***************************************************************************)
LegAFailedWithoutVenueCancel ==
    /\ pc = "raised" /\ call_site = "leg_a" /\ ~LegAReturned
    /\ ~(LegAAccepted /\ LegA.status = "CANCELLED_BY_VENUE")

C28_LegAFailureSurfacesAsParadexError ==
    LegAFailedWithoutVenueCancel =>
        /\ error = "ParadexError"
        /\ calls.bitget_place_order = 0 /\ bitget_orders = <<>>
        /\ calls.paradex_cancel_order = 0
        /\ calls.paradex_place_order <= 1
        /\ result = <<>>

C28_Witness ==
    LegAFailedWithoutVenueCancel /\ LegAAccepted /\ LegA.status = "NEW" /\ error = "ParadexError"

(***************************************************************************)
(* C29.  For every order placed, size * reference price is at most 0.95    *)
(* times the available balance the venue returned during preparation of    *)
(* that attempt.                                                           *)
(***************************************************************************)
C29_OrdersCommitAtMost95PercentOfBalance ==
    /\ calls.paradex_place_order > 0 \/ pc = "place_order" =>
          order.size * paradex_price * 100 <= 95 * paradex_available
    /\ \A i \in 1..Len(paradex_orders) :
          paradex_orders[i].size * paradex_price * 100 <= 95 * paradex_available
    /\ calls.bitget_place_order > 0 \/ pc = "bitget_place_order" =>
          bitget_size * bitget_price * 100 <= 95 * bitget_available
    /\ LegBExists => LegB.size * bitget_price * 100 <= 95 * bitget_available

C29_Witness ==
    /\ Returned
    /\ LegA.size * paradex_price * 100 >= 80 * paradex_available
    /\ LegB.size * bitget_price * 100 >= 80 * bitget_available

MutatingCalls == {"set_margin_configuration", "set_position_mode", "set_margin_mode", "set_leverage"}

\* both venues report the target configuration
AtTargetConfiguration ==
    /\ margin_configuration = [leverage |-> 1, margin_type |-> "ISOLATED"]
    /\ account_details.posMode = "one_way_mode"
    /\ account_details.marginMode = "isolated"
    /\ account_details.isolatedLongLever = 1 /\ account_details.isolatedShortLever = 1

SizesComputed == raw_paradex_size # None

\* every order submitted to either venue carries size s
OrdersCarry(s) ==
    /\ \A i \in 1..Len(paradex_orders) : paradex_orders[i].size = s
    /\ \A i \in 1..Len(bitget_orders) : bitget_orders[i].size = s

\* C25 as stated: on the example market (increments 0.01 and 0.001, minimum
\* required 0.02, upper limit 1.0) the search returns 0.02 whatever the
\* target, and both legs are placed with 0.02
C25_Original ==
    SizesComputed =>
       /\ common_size = 20
       /\ paradex_size = 20 /\ bitget_size = 20
       /\ OrdersCarry(20)

\* C25, amended: on the example market the search returns the first scanned
\* multiple of 0.01 that is at or above the target: 0.02, at the first
\* scanned value, exactly when the target is at most 0.02; with a target
\* above the upper limit it returns 1.0 from the downward scan; both legs
\* are placed with the size returned
C25_ExampleReturnsFirstMultipleAtOrAboveTarget ==
    SizesComputed =>
       LET target == Max2(raw_paradex_size, raw_bitget_size)
       IN  /\ MinRequired = 20 /\ UpperLimit = 1000
           /\ common_size % 10 = 0
           /\ (common_size = 20) <=> (target <= 20)
           /\ target <= 1000 => common_size >= target /\ common_size - 10 < Max2(target, 20)
           /\ target > 1000 => common_size = 1000
           /\ paradex_size = common_size /\ bitget_size = common_size
           /\ OrdersCarry(common_size)

\* both legs were placed with a size above 0.02 that the target called for
C25_Witness ==
    /\ pc = "returned"
    /\ paradex_increment = 10 /\ bitget_multiplier = 1
    /\ Max2(raw_paradex_size, raw_bitget_size) = 33
    /\ common_size = 40
    /\ Len(paradex_orders) = 1 /\ Len(bitget_orders) = 1


\* hedger.py:377-380  what place_orders takes the value returned by
\* cancel_order for
ReportedClosed == pc = "returned" /\ result # <<>> /\ result[1].error = "ORDER_IS_CLOSED"
ReportedCancelled == pc = "returned" /\ result # <<>> /\ result[1].error # "ORDER_IS_CLOSED"

\* C24: cancel_order has three outcomes that can be told apart: it returns
\* the venue's response when the cancel succeeded, it returns the marker
\* ORDER_IS_CLOSED when the venue rejected the cancel because the order is
\* closed, and it raises ParadexAPIError for every other failure; a cancel
\* that succeeded is never reported as closed and a closed order is never
\* reported as cancelled
C24_CancelOrderHasThreeOutcomes ==
    Terminal =>
       /\ response.effect = "cancelled" => ReportedCancelled
       /\ response.effect = "closed" => ReportedClosed
       /\ response.effect = "none" => pc = "raised" /\ error = "ParadexAPIError"


\* the number of requests sent to path
Requests(path) == Cardinality({ i \in 1..Len(sent) : sent[i].path = path })

\* the original request was answered with the expired-token response
ExpiredAnswer == sent # <<>> /\ is_token_expired(response) = "yes"

\* the token held is the one after the token the original request carried
TokenRenewed == sent # <<>> /\ jwt_token = sent[1].token + 1

\* the refresh went through: POST /auth was sent and answered with a token
RefreshSucceeded ==
    Requests("POST /auth") = 1 /\ auth_response.json /\ Success(auth_response)

\* C31 as stated: an expired-token answer makes the gateway refresh its
\* token exactly once, by a request that is not expiry-checked, the original
\* request is not sent again, and the caller is told of a failure although
\* the token was renewed
C31_Original ==
    (Terminal /\ ExpiredAnswer) =>
       /\ Requests("POST /auth") = 1
       /\ \A i \in 1..Len(sent) : sent[i].path = "POST /auth" => ~sent[i].check_jwt
       /\ Requests("DELETE /orders") = 1
       /\ pc = "raised"
       /\ TokenRenewed

\* C31, amended: on an expired-token answer a gateway that holds its
\* credentials calls get_jwt_token exactly once, and a gateway without them
\* raises ParadexAPIError without refreshing; the requests of the refresh
\* (GET /system/config when the configuration is empty, then POST /auth) are
\* sent at most once each and never expiry-checked, whatever they are
\* answered; the token is renewed exactly when the refresh went through; the
\* original request is never sent again, and the caller gets an exception in
\* every case, ParadexAPIError when the token was renewed
C31_ExpiredTokenRefreshAttemptedOnceRequestNotResent ==
    /\ Requests("DELETE /orders") <= 1
    /\ Requests("POST /auth") <= 1
    /\ Requests("GET /system/config") <= 1
    /\ \A i \in 1..Len(sent) : sent[i].check_jwt <=> sent[i].path = "DELETE /orders"
    /\ Len(sent) > 1 => ExpiredAnswer /\ credentials
    /\ TokenRenewed <=> RefreshSucceeded
    /\ (Terminal /\ ExpiredAnswer) =>
          /\ pc = "raised"
          /\ Requests("DELETE /orders") = 1
          /\ ~credentials => Len(sent) = 1 /\ error = "ParadexAPIError"
          /\ credentials => Len(sent) > 1
          /\ (credentials /\ config) => Requests("POST /auth") = 1
          /\ (credentials /\ ~config) => Requests("GET /system/config") = 1 /\ Requests("POST /auth") = 0
          /\ TokenRenewed => error = "ParadexAPIError"

\* the configuration was fetched, the token renewed, and the caller was told
\* that the request failed
C31_Witness ==
    /\ pc = "raised" /\ error = "ParadexAPIError"
    /\ ExpiredAnswer /\ TokenRenewed
    /\ Len(sent) = 3
    /\ sent[2].path = "GET /system/config" /\ sent[3].path = "POST /auth"

=============================================================================
